---- MODULE Spec2Model ----
(***************************************************************************)
(* PomodoroTimer (timer.ts): the session state machine and the wall-clock  *)
(* anchored countdown.  Times are milliseconds, as in the code.            *)
(***************************************************************************)
EXTENDS Integers, Sequences, FiniteSets, TLC

VARIABLES
    settings,             \* this.settings (the fields the engine reads)
    state,                \* this.state : TimerState
    intervalId,           \* this.intervalId (NoInterval = null)
    startTime,            \* this.startTime
    endTime,              \* this.endTime
    pausedRemainingTime,  \* this.pausedRemainingTime
    loops,                \* host: ids of the setInterval loops not yet cleared
    now,                  \* host: Date.now()
    calls,                \* callback invocations made by the last operation
    completed,            \* onComplete was invoked since construction / reset()
    run,                  \* the run observed since construction / reset()
    anchor,               \* how the countdown in progress was begun
    cancelled,            \* pause() or reset() took effect and start() was not called since
    formatted,            \* an argument of formatTime and, once called, its result
    ui                    \* main.ts: the screen shown and the symbol on #pause-btn

vars == <<settings, state, intervalId, startTime, endTime, pausedRemainingTime,
          loops, now, calls, completed, run, anchor, cancelled, formatted, ui>>

-----------------------------------------------------------------------------
(* Bounds of the model *)

MaxSets == 3             \* totalSets ranges over 1..MaxSets
MaxQuanta == 3           \* the clock stops advancing after this many quanta
MaxRunSets == 6          \* totalSets of an observed full run ranges over 1..MaxRunSets
MaxRunInterval == 4      \* its longBreakInterval over 2..MaxRunInterval
MaxFormatSeconds == 20   \* formatTime is applied around every second up to this one
MaxLiveQuanta == 8       \* quanta of countdown the clock of a fair run may count

(* Program constants *)

MsPerMinute == 60 * 1000
NoInterval == 0
null == "null"

\* The clock is observed every half minute; polls may be late or skipped by any
\* number of these quanta.
Quantum == MsPerMinute \div 2
MaxNow == MaxQuanta * Quantum

\* The configurations the model draws from, at construction and in
\* updateSettings(): positive durations, totalSets >= 1, longBreakInterval >= 2
\* (the ranges the settings form accepts).
Configs ==
    [workDuration : {1, 2}, breakDuration : {1}, longBreakDuration : {2},
     totalSets : 1..MaxSets, longBreakInterval : {2}]

\* The values updateSettings() draws from for each field.
ConfigValues ==
    [f \in {"workDuration", "breakDuration", "longBreakDuration", "totalSets",
            "longBreakInterval"} |-> {cfg[f] : cfg \in Configs}]

\* Configurations outside the range the settings form accepts: no set at all.
ZeroSetsConfigs ==
    [workDuration : {1, 2}, breakDuration : {1}, longBreakDuration : {2},
     totalSets : {0}, longBreakInterval : {2}]

\* The configurations of the runs observed under fairness.
LiveConfigs ==
    [workDuration : {1}, breakDuration : {1}, longBreakDuration : {1},
     totalSets : {1, 2}, longBreakInterval : {2}]

\* The configurations of the full runs observed from construction to completion.
RunConfigs ==
    [workDuration : {1}, breakDuration : {1}, longBreakDuration : {2},
     totalSets : 1..MaxRunSets, longBreakInterval : 2..MaxRunInterval]

-----------------------------------------------------------------------------
(* Callback invocations.  Every record has the same fields; the ones a     *)
(* callback does not take are filled with "-" / NoState.                   *)

NoState ==
    [status |-> "-", currentSession |-> "-", currentSet |-> 0,
     remainingTime |-> 0, totalDuration |-> 0]

onTick(s) == [cb |-> "onTick", ended |-> "-", next |-> "-", state |-> s]
onSessionEnd(e, n) == [cb |-> "onSessionEnd", ended |-> e, next |-> n, state |-> NoState]
onComplete == [cb |-> "onComplete", ended |-> "-", next |-> "-", state |-> NoState]
onStateChange(s) == [cb |-> "onStateChange", ended |-> "-", next |-> "-", state |-> s]

-----------------------------------------------------------------------------
(* The engine, as operators on a record m of its fields (plus the host's   *)
(* loops and the callback invocations made so far in this operation).      *)

Self ==
    [settings |-> settings, state |-> state, intervalId |-> intervalId,
     startTime |-> startTime, endTime |-> endTime,
     pausedRemainingTime |-> pausedRemainingTime, loops |-> loops, calls |-> <<>>]

createInitialState(m) ==
    LET duration == m.settings.workDuration * 60 * 1000
    IN  [status |-> "idle", currentSession |-> "work", currentSet |-> 1,
         remainingTime |-> duration, totalDuration |-> duration]

constructor(cfg) ==
    LET m0 == [settings |-> cfg, state |-> NoState, intervalId |-> NoInterval,
               startTime |-> 0, endTime |-> 0, pausedRemainingTime |-> 0,
               loops |-> {}, calls |-> <<>>]
    IN  [m0 EXCEPT !.state = createInitialState(m0)]

\* updateSettings that also rescales the session in progress
updateSettings_rescale(m, partial) ==
    LET merged == [f \in DOMAIN m.settings |->
                      IF f \in DOMAIN partial THEN partial[f] ELSE m.settings[f]]
        duration ==
            CASE m.state.currentSession = "work" -> merged.workDuration * 60 * 1000
              [] m.state.currentSession = "break" -> merged.breakDuration * 60 * 1000
              [] m.state.currentSession = "longBreak" ->
                     merged.longBreakDuration * 60 * 1000
    IN  [m EXCEPT !.settings = merged, !.state.totalDuration = duration]

\* { ...this.settings, ...settings }
updateSettings(m, partial) ==
    [m EXCEPT !.settings =
        [f \in DOMAIN m.settings |->
            IF f \in DOMAIN partial THEN partial[f] ELSE m.settings[f]]]

getState(m) == m.state

notifyStateChange(m) == [m EXCEPT !.calls = Append(@, onStateChange(getState(m)))]

getSessionDuration(m, session) ==
    CASE session = "work" -> m.settings.workDuration * 60 * 1000
      [] session = "break" -> m.settings.breakDuration * 60 * 1000
      [] session = "longBreak" -> m.settings.longBreakDuration * 60 * 1000

\* window.setInterval returns an id no live loop has.
setInterval(m) == CHOOSE i \in 1..(Cardinality(m.loops) + 1) : i \notin m.loops

startTimer(m, duration, t) ==
    LET id == setInterval(m)
    IN  [m EXCEPT !.startTime = t, !.endTime = t + duration,
                  !.intervalId = id, !.loops = @ \cup {id}]

stopInterval(m) ==
    IF m.intervalId # NoInterval
    THEN [m EXCEPT !.loops = @ \ {m.intervalId}, !.intervalId = NoInterval]
    ELSE m

\* getNextSession with the terminal test made one set late
getNextSession_lateTerminal(m) ==
    LET currentSession == m.state.currentSession
        currentSet == m.state.currentSet
        totalSets == m.settings.totalSets
        longBreakInterval == m.settings.longBreakInterval
    IN  IF currentSession = "work"
        THEN IF currentSet > totalSets THEN null
             ELSE IF currentSet % longBreakInterval = 0 THEN "longBreak"
             ELSE "break"
        ELSE IF currentSet > totalSets THEN null
             ELSE "work"

\* getNextSession with the terminal test made by equality
getNextSession_equalsTotal(m) ==
    LET currentSession == m.state.currentSession
        currentSet == m.state.currentSet
        totalSets == m.settings.totalSets
        longBreakInterval == m.settings.longBreakInterval
    IN  IF currentSession = "work"
        THEN IF currentSet = totalSets THEN null
             ELSE IF currentSet % longBreakInterval = 0 THEN "longBreak"
             ELSE "break"
        ELSE IF currentSet = totalSets THEN null
             ELSE "work"

\* getNextSession with the modulo test made before the terminal test
getNextSession_moduloFirst(m) ==
    LET currentSession == m.state.currentSession
        currentSet == m.state.currentSet
        totalSets == m.settings.totalSets
        longBreakInterval == m.settings.longBreakInterval
    IN  IF currentSession = "work"
        THEN IF currentSet % longBreakInterval = 0 THEN "longBreak"
             ELSE IF currentSet >= totalSets THEN null
             ELSE "break"
        ELSE IF currentSet >= totalSets THEN null
             ELSE "work"

getNextSession(m) ==
    LET currentSession == m.state.currentSession
        currentSet == m.state.currentSet
        totalSets == m.settings.totalSets
        longBreakInterval == m.settings.longBreakInterval
    IN  IF currentSession = "work"
        THEN IF currentSet >= totalSets THEN null
             ELSE IF currentSet % longBreakInterval = 0 THEN "longBreak"
             ELSE "break"
        ELSE IF currentSet >= totalSets THEN null
             ELSE "work"

\* handleSessionEnd parameterised by the slips the checks below try:
\*   setOnWorkEnd   currentSet++ made when work ends, not when a break ends
\*   endOnlyIfNext  onSessionEnd invoked only when there is a next session
\*   notifyFirst    onStateChange invoked before onComplete
\*   keepRemaining  remainingTime not zeroed on completion
\*   noStop         the countdown loop not stopped first
\*   chain          the next countdown anchored at the end of the one before
\*   setOnEveryEnd  currentSet++ made at every non-terminal transition
handleSessionEnd_slip(m, t, slip) ==
    LET m1 == IF slip = "noStop" THEN m ELSE stopInterval(m)
        endedSession == m1.state.currentSession
        nextSession == getNextSession(m1)
        m2 == IF slip = "endOnlyIfNext" /\ nextSession = null THEN m1
              ELSE [m1 EXCEPT !.calls = Append(@, onSessionEnd(endedSession, nextSession))]
        m3 == IF nextSession = null
              THEN LET m2a == [m2 EXCEPT !.state.status = "completed",
                                         !.state.remainingTime =
                                             IF slip = "keepRemaining" THEN @ ELSE 0]
                   IN  IF slip = "notifyFirst"
                       THEN [notifyStateChange(m2a) EXCEPT !.calls = Append(@, onComplete)]
                       ELSE [m2a EXCEPT !.calls = Append(@, onComplete)]
              ELSE LET duration == getSessionDuration(m2, nextSession)
                       bump == IF slip = "setOnWorkEnd"
                               THEN endedSession = "work"
                               ELSE IF slip = "setOnEveryEnd" THEN TRUE
                               ELSE endedSession \in {"break", "longBreak"}
                                    /\ nextSession = "work"
                       set == IF bump THEN m2.state.currentSet + 1
                              ELSE m2.state.currentSet
                   IN  startTimer(
                           [m2 EXCEPT !.state.currentSession = nextSession,
                                      !.state.currentSet = set,
                                      !.state.totalDuration = duration,
                                      !.state.remainingTime = duration,
                                      !.state.status = "running"],
                           duration,
                           IF slip = "chain" /\ m.state.status = "running"
                           THEN m.endTime ELSE t)
    IN  IF slip = "notifyFirst" /\ nextSession = null THEN m3
        ELSE notifyStateChange(m3)

handleSessionEnd_setOnWorkEnd(m, t) == handleSessionEnd_slip(m, t, "setOnWorkEnd")
handleSessionEnd_endOnlyIfNext(m, t) == handleSessionEnd_slip(m, t, "endOnlyIfNext")
handleSessionEnd_notifyFirst(m, t) == handleSessionEnd_slip(m, t, "notifyFirst")
handleSessionEnd_keepRemaining(m, t) == handleSessionEnd_slip(m, t, "keepRemaining")
handleSessionEnd_noStop(m, t) == handleSessionEnd_slip(m, t, "noStop")
handleSessionEnd_chain(m, t) == handleSessionEnd_slip(m, t, "chain")
handleSessionEnd_setOnEveryEnd(m, t) == handleSessionEnd_slip(m, t, "setOnEveryEnd")

handleSessionEnd(m, t) ==
    LET m1 == stopInterval(m)
        endedSession == m1.state.currentSession
        nextSession == getNextSession(m1)
        m2 == [m1 EXCEPT !.calls = Append(@, onSessionEnd(endedSession, nextSession))]
        m3 == IF nextSession = null
              THEN [m2 EXCEPT !.state.status = "completed",
                              !.state.remainingTime = 0,
                              !.calls = Append(@, onComplete)]
              ELSE LET duration == getSessionDuration(m2, nextSession)
                       set == IF endedSession \in {"break", "longBreak"}
                                 /\ nextSession = "work"
                              THEN m2.state.currentSet + 1
                              ELSE m2.state.currentSet
                   IN  startTimer(
                           [m2 EXCEPT !.state.currentSession = nextSession,
                                      !.state.currentSet = set,
                                      !.state.totalDuration = duration,
                                      !.state.remainingTime = duration,
                                      !.state.status = "running"],
                           duration, t)
    IN  notifyStateChange(m3)

\* resume restarting the countdown with the session's whole duration
resume_fullDuration(m, t) ==
    IF m.state.status # "paused" THEN m
    ELSE notifyStateChange(
             startTimer([m EXCEPT !.state.status = "running"],
                        m.state.totalDuration, t))

resume(m, t) ==
    IF m.state.status # "paused" THEN m
    ELSE notifyStateChange(
             startTimer([m EXCEPT !.state.status = "running"],
                        m.pausedRemainingTime, t))

\* start that begins the session with the duration the state already holds
start_staleDuration(m, t) ==
    IF m.state.status = "running" THEN m
    ELSE IF m.state.status = "paused" THEN resume(m, t)
    ELSE LET duration == m.state.totalDuration
         IN  notifyStateChange(
                 startTimer([m EXCEPT !.state.status = "running",
                                      !.state.totalDuration = duration,
                                      !.state.remainingTime = duration],
                            duration, t))

start(m, t) ==
    IF m.state.status = "running" THEN m
    ELSE IF m.state.status = "paused" THEN resume(m, t)
    ELSE LET duration == getSessionDuration(m, m.state.currentSession)
         IN  notifyStateChange(
                 startTimer([m EXCEPT !.state.status = "running",
                                      !.state.totalDuration = duration,
                                      !.state.remainingTime = duration],
                            duration, t))

\* pause that notifies before it makes the status paused
pause_notifyBefore(m) ==
    IF m.state.status # "running" THEN m
    ELSE LET m1 == notifyStateChange(stopInterval(m))
         IN  [m1 EXCEPT !.pausedRemainingTime = m1.state.remainingTime,
                        !.state.status = "paused"]

\* pause that leaves the countdown loop alive
pause_noStop(m) ==
    IF m.state.status # "running" THEN m
    ELSE notifyStateChange(
             [m EXCEPT !.pausedRemainingTime = m.state.remainingTime,
                       !.state.status = "paused"])

\* pause that does not record the remaining time
pause_noFreeze(m) ==
    IF m.state.status # "running" THEN m
    ELSE notifyStateChange([stopInterval(m) EXCEPT !.state.status = "paused"])

pause(m) ==
    IF m.state.status # "running" THEN m
    ELSE LET m1 == stopInterval(m)
         IN  notifyStateChange(
                 [m1 EXCEPT !.pausedRemainingTime = m1.state.remainingTime,
                            !.state.status = "paused"])

\* reset that leaves the countdown loop alive
reset_noStop(m) == notifyStateChange([m EXCEPT !.state = createInitialState(m)])

reset(m) ==
    LET m1 == stopInterval(m)
    IN  notifyStateChange([m1 EXCEPT !.state = createInitialState(m1)])

\* skip that acts on a running countdown only
skip_runningOnly(m, t) ==
    IF m.state.status # "running" THEN m
    ELSE handleSessionEnd(m, t)

\* skip without the guard on idle and completed
skip_noGuard(m, t) == handleSessionEnd(m, t)

skip(m, t) ==
    IF m.state.status \in {"idle", "completed"} THEN m
    ELSE handleSessionEnd(m, t)

Max(a, b) == IF a >= b THEN a ELSE b

\* tick that reports the expiring poll through onTick as well
tick_tickOnExpiry(m, t) ==
    LET remaining == Max(0, m.endTime - t)
        m1 == [m EXCEPT !.state.remainingTime = remaining]
        m2 == [m1 EXCEPT !.calls = Append(@, onTick(getState(m1)))]
    IN  IF remaining = 0 THEN handleSessionEnd(m2, t) ELSE m2

\* tick without the clamp of the remaining time at 0
tick_noClamp(m, t) ==
    LET remaining == m.endTime - t
        m1 == [m EXCEPT !.state.remainingTime = remaining]
    IN  IF remaining = 0
        THEN handleSessionEnd(m1, t)
        ELSE [m1 EXCEPT !.calls = Append(@, onTick(getState(m1)))]

\* tick that counts the nominal poll interval down instead of reading the clock
tick_decrement(m, t) ==
    LET remaining == Max(0, m.state.remainingTime - 100)
        m1 == [m EXCEPT !.state.remainingTime = remaining]
    IN  IF remaining = 0
        THEN handleSessionEnd(m1, t)
        ELSE [m1 EXCEPT !.calls = Append(@, onTick(getState(m1)))]

tick(m, t) ==
    LET remaining == Max(0, m.endTime - t)
        m1 == [m EXCEPT !.state.remainingTime = remaining]
    IN  IF remaining = 0
        THEN handleSessionEnd(m1, t)
        ELSE [m1 EXCEPT !.calls = Append(@, onTick(getState(m1)))]

\* A percentage as the exact quotient num / den (den > 0); the code computes
\* (elapsed / totalDuration) * 100 in floating point.
Quotient(n, d) == [num |-> n, den |-> d]

getProgress(m) ==
    IF m.state.totalDuration = 0 THEN Quotient(0, 1)
    ELSE LET elapsed == m.state.totalDuration - m.state.remainingTime
         IN  Quotient(elapsed * 100, m.state.totalDuration)

-----------------------------------------------------------------------------
(* formatTime.  A string is the sequence of its characters. *)

Digits == <<"0", "1", "2", "3", "4", "5", "6", "7", "8", "9">>

\* Math.ceil and Math.floor of the quotient n / d (d > 0)
ceil(n, d) == -((-n) \div d)
floor(n, d) == n \div d

\* Number.prototype.toString of an integer n >= 0
RECURSIVE toString(_)
toString(n) ==
    IF n < 10 THEN <<Digits[n + 1]>>
    ELSE toString(n \div 10) \o <<Digits[(n % 10) + 1]>>

\* String.prototype.padStart with a pad string of one character
RECURSIVE padStart(_, _, _)
padStart(str, targetLength, padString) ==
    IF Len(str) >= targetLength THEN str
    ELSE padStart(<<padString>> \o str, targetLength, padString)

\* formatTime rounding the seconds down
formatTime_floor(ms) ==
    LET totalSeconds == floor(ms, 1000)
        minutes == floor(totalSeconds, 60)
        seconds == totalSeconds % 60
    IN  padStart(toString(minutes), 2, "0") \o <<":">>
            \o padStart(toString(seconds), 2, "0")

formatTime(ms) ==
    LET totalSeconds == ceil(ms, 1000)
        minutes == floor(totalSeconds, 60)
        seconds == totalSeconds % 60
    IN  padStart(toString(minutes), 2, "0") \o <<":">>
            \o padStart(toString(seconds), 2, "0")

\* The arguments formatTime is applied to: every integer of milliseconds within
\* one of a whole second, for the seconds up to MaxFormatSeconds and those
\* around a change in the number of digits, of minutes or of hours.
FormatSeconds ==
    (0..MaxFormatSeconds)
        \cup {59, 60, 61, 119, 120, 599, 600, 601, 3599, 3600, 3601, 5999, 6000, 6001}

FormatInputs ==
    {ms \in {s * 1000 + d : s \in FormatSeconds, d \in {-999, -1, 0, 1, 999}} :
        ms >= 0}

Unformatted(ms) == [ms |-> ms, text |-> <<>>]

DEFAULT_SETTINGS ==
    [workDuration |-> 25, breakDuration |-> 5, longBreakDuration |-> 15,
     totalSets |-> 4, longBreakInterval |-> 4]

-----------------------------------------------------------------------------
(* The page (main.ts): the screen shown and the symbol of the pause button *)

PauseSymbol == "pause"      \* textContent of #pause-btn while it offers to pause
PlaySymbol == "play"        \* textContent of #pause-btn while it offers to resume

NoPage == [screen |-> "-", pauseBtn |-> "-"]

renderSettingsScreen == [screen |-> "settings", pauseBtn |-> "-"]
renderTimerScreen == [screen |-> "timer", pauseBtn |-> PauseSymbol]
renderCompleteScreen == [screen |-> "complete", pauseBtn |-> "-"]

-----------------------------------------------------------------------------
(* Bookkeeping of what the operations made observable *)

\* The number of invocations of callback cb among cs, and of onSessionEnd for
\* an ended session among sessions.
Named(cs, cb) == Cardinality({i \in 1..Len(cs) : cs[i].cb = cb})
Ended(cs, sessions) ==
    Cardinality({i \in 1..Len(cs) :
                    cs[i].cb = "onSessionEnd" /\ cs[i].ended \in sessions})

\* The session an operation entered, if it entered one.
Entered(m0, m) ==
    IF Named(m.calls, "onSessionEnd") > 0
    THEN IF m.state.status = "completed"
         THEN <<[session |-> "completed", set |-> m.state.currentSet]>>
         ELSE <<[session |-> m.state.currentSession, set |-> m.state.currentSet]>>
    ELSE IF m0.state.status \in {"idle", "completed"} /\ m.state.status = "running"
         THEN <<[session |-> m.state.currentSession, set |-> m.state.currentSet]>>
         ELSE <<>>

\* A run is observed from construction or reset() up to its completion: the
\* sessions entered and the callbacks invoked.  updateSettings() ends the
\* observation (Unobserved) until the next reset().
NewRun == [visited |-> <<>>, workEnd |-> 0, breakEnd |-> 0, complete |-> 0]
Unobserved == [visited |-> <<>>, workEnd |-> -1, breakEnd |-> -1, complete |-> -1]

Observed(r, m0, m) ==
    IF r = Unobserved \/ r.complete > 0 THEN r
    ELSE [visited |-> r.visited \o Entered(m0, m),
          workEnd |-> r.workEnd + Ended(m.calls, {"work"}),
          breakEnd |-> r.breakEnd + Ended(m.calls, {"break", "longBreak"}),
          complete |-> r.complete + Named(m.calls, "onComplete")]

NoAnchor ==
    [kind |-> "none", at |-> 0, T |-> 0, waited |-> 0, by |-> "-", late |-> 0,
     ran |-> 0]

\* How the countdown in progress after the operation was begun: afresh at clock
\* `at` with a session's full duration T, or resumed at clock `at`, after
\* `waited` ms in status paused, from a pause() called when remainingTime was T;
\* `by` the operation that began it (start, skip, poll), which, for a poll, came
\* `late` ms after the end of the countdown before; `ran` the time the session
\* had spent in status running before `at`.
Anchored(a, m0, m, t, by) ==
    IF m.calls = <<>> \/ Named(m.calls, "onTick") > 0 THEN a
    ELSE IF m.state.status = "paused"
         THEN [kind |-> "paused", at |-> t, T |-> m0.state.remainingTime,
               waited |-> 0, by |-> by, late |-> 0, ran |-> a.ran + (t - a.at)]
    ELSE IF m.state.status = "running"
         THEN IF m0.state.status = "paused" /\ Named(m.calls, "onSessionEnd") = 0
              THEN [kind |-> "resumed", at |-> t, T |-> a.T, waited |-> t - a.at,
                    by |-> by, late |-> 0, ran |-> a.ran]
              ELSE [kind |-> "fresh", at |-> t, T |-> m.state.totalDuration,
                    waited |-> 0, by |-> by,
                    late |-> IF by = "poll" THEN t - m0.endTime ELSE 0,
                    ran |-> 0]
    ELSE NoAnchor

Engine(m) ==
    /\ settings' = m.settings
    /\ state' = m.state
    /\ intervalId' = m.intervalId
    /\ startTime' = m.startTime
    /\ endTime' = m.endTime
    /\ pausedRemainingTime' = m.pausedRemainingTime
    /\ loops' = m.loops
    /\ calls' = m.calls
    /\ formatted' = formatted

Commit(m, by) ==
    /\ Engine(m)
    /\ completed' = (completed \/ Named(m.calls, "onComplete") > 0)
    /\ run' = Observed(run, Self, m)
    /\ anchor' = Anchored(anchor, Self, m, now, by)
    /\ now' = now

-----------------------------------------------------------------------------
(* The operations of the engine and the events of its host *)

InitWith(cfgs) ==
    /\ \E cfg \in cfgs :
         LET m == constructor(cfg)
         IN  /\ settings = m.settings
             /\ state = m.state
             /\ intervalId = m.intervalId
             /\ startTime = m.startTime
             /\ endTime = m.endTime
             /\ pausedRemainingTime = m.pausedRemainingTime
             /\ loops = m.loops
             /\ calls = m.calls
    /\ now = 0
    /\ completed = FALSE
    /\ run = NewRun
    /\ anchor = NoAnchor
    /\ cancelled = FALSE

Init ==
    /\ InitWith(Configs)
    /\ formatted = Unformatted(0)
    /\ ui = NoPage

Start ==
    /\ Commit(start(Self, now), "start")
    /\ cancelled' = FALSE
    /\ ui' = ui

Pause ==
    /\ Commit(pause(Self), "pause")
    /\ cancelled' = (cancelled \/ state.status = "running")
    /\ ui' = ui

Skip ==
    /\ Commit(skip(Self, now), "skip")
    /\ cancelled' = cancelled
    /\ ui' = ui

Reset ==
    /\ Engine(reset(Self))
    /\ completed' = FALSE
    /\ run' = NewRun
    /\ anchor' = NoAnchor
    /\ cancelled' = TRUE
    /\ now' = now
    /\ ui' = ui

\* updateSettings() with one field of a configuration; the settings form's
\* whole configuration is a sequence of these.
UpdateSettings ==
    /\ run' = Unobserved
    /\ UNCHANGED <<completed, anchor, cancelled, now, ui>>
    /\ \E f \in DOMAIN settings : \E v \in ConfigValues[f] :
           Engine(updateSettings(Self, [g \in {f} |-> v]))

\* One firing of the callback of a live setInterval loop.
Tick ==
    /\ \E i \in loops : Commit(tick(Self, now), "poll")
    /\ cancelled' = cancelled
    /\ ui' = ui

\* Time passes.
Advance ==
    /\ now + Quantum <= MaxNow
    /\ now' = now + Quantum
    /\ UNCHANGED <<settings, state, intervalId, startTime, endTime,
                   pausedRemainingTime, loops, calls, completed, run, anchor,
                   cancelled, formatted, ui>>

Next == Start \/ Pause \/ Skip \/ Reset \/ UpdateSettings \/ Tick \/ Advance

Spec == Init /\ [][Next]_vars

\* A full run: from construction to completion, without reset() and without
\* updateSettings().
InitRun ==
    /\ InitWith(RunConfigs)
    /\ formatted = Unformatted(0)
    /\ ui = NoPage

NextRun == Start \/ Pause \/ Skip \/ Tick \/ Advance

SpecRun == InitRun /\ [][NextRun]_vars

\* The engine as the page drives it: the settings form, the only caller of
\* updateSettings(), is on screen at load and after a reset(), when the engine
\* is idle.
UpdateSettingsIdle ==
    /\ state.status = "idle"
    /\ UpdateSettings

NextIdleConfig ==
    Start \/ Pause \/ Skip \/ Reset \/ UpdateSettingsIdle \/ Tick \/ Advance

SpecIdleConfig == Init /\ [][NextIdleConfig]_vars

\* An engine constructed with totalSets = 0 and never reconfigured.
InitZeroSets ==
    /\ InitWith(ZeroSetsConfigs)
    /\ formatted = Unformatted(0)
    /\ ui = NoPage

NextZeroSets == Start \/ Pause \/ Skip \/ Reset \/ Tick \/ Advance

SpecZeroSets == InitZeroSets /\ [][NextZeroSets]_vars

\* A run under fairness: no reset(), no updateSettings(), one pause() at most.
\* The clock is watched while a countdown has time left: the polls fire for as
\* long as a loop is alive, the clock advances, and a paused engine is
\* eventually resumed.
InitLive ==
    /\ InitWith(LiveConfigs)
    /\ formatted = Unformatted(0)
    /\ ui = NoPage

PauseOnce ==
    /\ pausedRemainingTime = 0
    /\ Pause

Resume ==
    /\ state.status = "paused"
    /\ Start

AdvanceCountdown ==
    /\ state.status = "running"
    /\ now < endTime
    /\ now + Quantum <= MaxLiveQuanta * Quantum
    /\ now' = now + Quantum
    /\ UNCHANGED <<settings, state, intervalId, startTime, endTime,
                   pausedRemainingTime, loops, calls, completed, run, anchor,
                   cancelled, formatted, ui>>

NextLive == Start \/ PauseOnce \/ Skip \/ Tick \/ AdvanceCountdown

SpecLive ==
    /\ InitLive
    /\ [][NextLive]_vars
    /\ WF_vars(Tick)
    /\ WF_vars(AdvanceCountdown)
    /\ WF_vars(Resume)

-----------------------------------------------------------------------------
(* The page driving the engine (main.ts) *)

\* The page after the callbacks cs of an engine call made from page u:
\* handleComplete renders the complete screen; handleTick, handleSessionEnd and
\* handleStateChange leave the screen and the pause button as they are.
Handled(u, cs) == IF Named(cs, "onComplete") > 0 THEN renderCompleteScreen ELSE u

\* init(): the engine is constructed and the settings form is rendered.
InitUI ==
    /\ InitWith(Configs)
    /\ formatted = Unformatted(0)
    /\ ui = renderSettingsScreen

\* Submitting the settings form: updateSettings(form values), then the timer
\* screen is rendered with the pause symbol, then start().
handleFormSubmit ==
    /\ ui.screen = "settings"
    /\ \E cfg \in Configs :
         LET m == start(updateSettings(Self, cfg), now)
         IN  /\ Engine(m)
             /\ completed' = (completed \/ Named(m.calls, "onComplete") > 0)
             /\ anchor' = Anchored(anchor, Self, m, now, "start")
             /\ ui' = Handled(renderTimerScreen, m.calls)
    /\ run' = Unobserved
    /\ cancelled' = FALSE
    /\ now' = now

\* A click on #pause-btn: pause() and the play symbol while running, start()
\* and the pause symbol while paused, nothing otherwise.
handlePauseClick ==
    /\ ui.screen = "timer"
    /\ IF state.status = "running"
       THEN LET m == pause(Self)
            IN  /\ Commit(m, "pause")
                /\ cancelled' = TRUE
                /\ ui' = [Handled(ui, m.calls) EXCEPT !.pauseBtn = PlaySymbol]
       ELSE IF state.status = "paused"
       THEN LET m == start(Self, now)
            IN  /\ Commit(m, "start")
                /\ cancelled' = FALSE
                /\ ui' = [Handled(ui, m.calls) EXCEPT !.pauseBtn = PauseSymbol]
       ELSE UNCHANGED vars

\* The Space key on the timer screen (no input focused) is a pause click.
handleKeyDown == handlePauseClick

\* A confirmed click on #skip-btn: skip(); the pause button is not touched.
handleSkipClick ==
    /\ ui.screen = "timer"
    /\ LET m == skip(Self, now)
       IN  /\ Commit(m, "skip")
           /\ ui' = Handled(ui, m.calls)
    /\ cancelled' = cancelled

\* A confirmed click on #reset-btn: reset() and back to the settings form.
handleResetClick ==
    /\ ui.screen = "timer"
    /\ Engine(reset(Self))
    /\ completed' = FALSE
    /\ run' = NewRun
    /\ anchor' = NoAnchor
    /\ cancelled' = TRUE
    /\ now' = now
    /\ ui' = renderSettingsScreen

\* The restart button of the complete screen: reset() and the settings form.
handleRestartClick ==
    /\ ui.screen = "complete"
    /\ Engine(reset(Self))
    /\ completed' = FALSE
    /\ run' = NewRun
    /\ anchor' = NoAnchor
    /\ cancelled' = TRUE
    /\ now' = now
    /\ ui' = renderSettingsScreen

\* A poll of the countdown loop with the page's callbacks attached.
TickUI ==
    /\ \E i \in loops :
         LET m == tick(Self, now)
         IN  /\ Commit(m, "poll")
             /\ ui' = Handled(ui, m.calls)
    /\ cancelled' = cancelled

NextUI ==
    \/ handleFormSubmit
    \/ handlePauseClick
    \/ handleKeyDown
    \/ handleSkipClick
    \/ handleResetClick
    \/ handleRestartClick
    \/ TickUI
    \/ Advance

SpecUI == InitUI /\ [][NextUI]_vars

\* The static formatTime applied to one argument, beside an engine that is left
\* alone.
InitFormat ==
    /\ InitWith({DEFAULT_SETTINGS})
    /\ \E ms \in FormatInputs : formatted = Unformatted(ms)
    /\ ui = NoPage

FormatTime ==
    /\ formatted.text = <<>>
    /\ formatted' = [formatted EXCEPT !.text = formatTime(formatted.ms)]
    /\ UNCHANGED <<settings, state, intervalId, startTime, endTime,
                   pausedRemainingTime, loops, now, calls, completed, run,
                   anchor, cancelled, ui>>

NextFormat == FormatTime

SpecFormat == InitFormat /\ [][NextFormat]_vars

-----------------------------------------------------------------------------
(* Properties *)

Minutes(n) == n * MsPerMinute

DurationOf(cfg, session) ==
    CASE session = "work" -> Minutes(cfg.workDuration)
      [] session = "break" -> Minutes(cfg.breakDuration)
      [] session = "longBreak" -> Minutes(cfg.longBreakDuration)

\* A step that ends a session: a skip() or a poll that makes the transition.
SessionEnds == (Skip \/ Tick) /\ Named(calls', "onSessionEnd") > 0

\* The transition rule as stated: the terminal test first, then the modulo test.
NextAsStated(session, set, totalSets, longBreakInterval) ==
    IF session = "work"
    THEN IF set >= totalSets THEN null
         ELSE IF set % longBreakInterval = 0 THEN "longBreak"
         ELSE "break"
    ELSE IF set >= totalSets THEN null
         ELSE "work"

\* C1: at every session end (natural expiry or skip()) the next session is the
\* one the stated rule gives for (currentSession, currentSet, totalSets,
\* longBreakInterval) before the transition: it is the second argument of
\* onSessionEnd, and the engine is completed if it is null and in that session
\* otherwise.
C1_NextSession ==
    [][SessionEnds =>
        LET next == NextAsStated(state.currentSession, state.currentSet,
                                 settings.totalSets, settings.longBreakInterval)
        IN  /\ calls'[1] = onSessionEnd(state.currentSession, next)
            /\ IF next = null
               THEN state'.status = "completed"
                    /\ state'.currentSession = state.currentSession
               ELSE state'.status = "running" /\ state'.currentSession = next]_vars

\* C1 witness: a work session ended at a set that is both the last one and a
\* multiple of the long-break interval, and the engine completed.
C1_Witness ==
    /\ Len(calls) > 0
    /\ calls[1] = onSessionEnd("work", null)
    /\ state.status = "completed"
    /\ state.currentSet >= settings.totalSets
    /\ state.currentSet % settings.longBreakInterval = 0

\* The sessions of a full run with N sets and long-break interval L.
ExpectedRun(N, L) ==
    [i \in 1..(2 * N) |->
        IF i = 2 * N THEN [session |-> "completed", set |-> N]
        ELSE IF i % 2 = 1 THEN [session |-> "work", set |-> (i + 1) \div 2]
        ELSE [session |-> IF (i \div 2) % L = 0 THEN "longBreak" ELSE "break",
              set |-> i \div 2]]

IsPrefix(s, t) == Len(s) <= Len(t) /\ \A i \in 1..Len(s) : s[i] = t[i]

LongBreaksAt(v) == {i \in 1..Len(v) : v[i].session = "longBreak"}

\* C2: in a run from the initial state to completion without reset() and
\* updateSettings(), the sessions visited are work(1), b1, work(2), ...,
\* work(N), completed, with bk = longBreak iff k % L = 0; N=4, L=4 has no long
\* break, and N=6, L=3 has exactly one, after work(3) and before work(4).
C2_RunSequence ==
    LET N == settings.totalSets
        L == settings.longBreakInterval
        v == run.visited
    IN  /\ IsPrefix(v, ExpectedRun(N, L))
        /\ run.complete > 0 => v = ExpectedRun(N, L)
        /\ (run.complete = 0 /\ state.status \in {"running", "paused"}) =>
              v # <<>> /\ v[Len(v)] = [session |-> state.currentSession,
                                       set |-> state.currentSet]
        /\ (N = 4 /\ L = 4) => LongBreaksAt(v) = {}
        /\ (N = 6 /\ L = 3 /\ run.complete > 0) =>
              /\ LongBreaksAt(v) = {6}
              /\ v[5] = [session |-> "work", set |-> 3]
              /\ v[7] = [session |-> "work", set |-> 4]

\* C2 witness: the run with N=6, L=3 has completed.
C2_Witness ==
    /\ settings.totalSets = 6 /\ settings.longBreakInterval = 3
    /\ run.complete = 1
    /\ state.status = "completed"

\* C3: across a full run with totalSets = N, by expiry or skip(), with any
\* pause/resume, onSessionEnd is invoked N times for work and N-1 times for a
\* break, and onComplete once.
C3_CallbackCardinality ==
    LET N == settings.totalSets
    IN  /\ run.workEnd <= N /\ run.breakEnd <= N - 1
        /\ state.status = "completed" => run.complete > 0
        /\ run.complete > 0 =>
              /\ run.workEnd = N
              /\ run.breakEnd = N - 1
              /\ run.complete = 1

\* C3 witness: a run of three sets that was paused on its way has completed.
C3_Witness ==
    /\ settings.totalSets = 3
    /\ run.complete = 1
    /\ run.workEnd + run.breakEnd = 5
    /\ pausedRemainingTime > 0

\* C4: a session-end step invokes onSessionEnd(ended, next) once, first, with
\* ended the session current before it and next = null iff it is terminal;
\* then onComplete if terminal; then onStateChange, last, with the state after
\* the transition: completed with remainingTime 0, or running in the next
\* session with its full duration.
C4_TransitionCallbacks ==
    [][SessionEnds =>
        LET e == calls'[1]
            terminal == state'.status = "completed"
        IN  /\ e.cb = "onSessionEnd"
            /\ e.ended = state.currentSession
            /\ e.next = null <=> terminal
            /\ calls' = IF terminal
                        THEN <<e, onComplete, onStateChange(state')>>
                        ELSE <<e, onStateChange(state')>>
            /\ IF terminal
               THEN state'.remainingTime = 0
               ELSE /\ state'.status = "running"
                    /\ state'.currentSession = e.next
                    /\ state'.totalDuration = DurationOf(settings, e.next)
                    /\ state'.remainingTime = state'.totalDuration]_vars

\* C4 witness: a terminal transition has made its three callbacks.
C4_Witness ==
    /\ Len(calls) = 3
    /\ calls[1].cb = "onSessionEnd" /\ calls[1].next = null
    /\ calls[2] = onComplete
    /\ calls[3] = onStateChange(state)
    /\ state.status = "completed" /\ state.remainingTime = 0

\* C5: onComplete is invoked only by a terminal transition, and not again once
\* it has been invoked since construction or the latest reset().
C5_OnCompleteOnce ==
    [][((Start \/ Pause \/ Skip \/ Reset \/ UpdateSettings \/ Tick)
        /\ Named(calls', "onComplete") > 0) =>
            /\ SessionEnds
            /\ calls'[1].next = null
            /\ state'.status = "completed"
            /\ ~completed]_vars

\* What an operation leaves behind that a caller can observe.
Outcome(m) == [state |-> m.state, calls |-> m.calls]

\* The clock values, from now on, at which a poll finds the countdown expired.
ExpiryClocks == {t \in {now, endTime, endTime + Quantum} : t >= now /\ t >= endTime}

\* C6: from a running state, skip() gives the same SessionState and the same
\* callback invocations as a poll that finds the countdown expired in that
\* state; at the same clock value the countdown it starts is the same too.
C6_SkipEquivalence ==
    state.status = "running" =>
        /\ \A t \in ExpiryClocks : Outcome(skip(Self, now)) = Outcome(tick(Self, t))
        /\ now >= endTime => skip(Self, now) = tick(Self, now)

\* C6 witness: a running countdown that was polled part-way and whose end the
\* clock has since passed: skip() and the next poll both apply.
C6_Witness ==
    /\ state.status = "running"
    /\ calls = <<onTick(state)>>
    /\ state.remainingTime < state.totalDuration
    /\ now >= endTime

\* C7: a pause() at remainingTime = T followed, after any wait, by start()
\* anchors the countdown at endTime = (clock at resume) + T, and a poll expires
\* the session iff the clock has advanced by at least T since the resume.
C7_ResumeAnchor ==
    /\ [][(Start /\ state.status = "paused") =>
            /\ state'.status = "running"
            /\ state'.remainingTime = state.remainingTime
            /\ endTime' = now + state.remainingTime]_vars
    /\ []((state.status = "running" /\ anchor.kind = "resumed") =>
            endTime = anchor.at + anchor.T)
    /\ [][(Tick /\ state.status = "running" /\ anchor.kind = "resumed") =>
            (Named(calls', "onSessionEnd") > 0 <=> now - anchor.at >= anchor.T)]_vars

\* C7 witness: a session paused part-way, resumed after a wait and polled.
C7_Witness ==
    /\ state.status = "running"
    /\ anchor.kind = "resumed"
    /\ anchor.waited > 0
    /\ anchor.T < state.totalDuration
    /\ calls = <<onTick(state)>>
    /\ now > anchor.at

\* C8: a poll in status running at clock now expires the session iff
\* now >= endTime and otherwise leaves remainingTime = endTime - now and makes
\* one onTick, however many polls were skipped before it.
C8_DriftIndependence ==
    [][(Tick /\ state.status = "running") =>
        IF now >= endTime
        THEN /\ Named(calls', "onSessionEnd") = 1
             /\ Named(calls', "onTick") = 0
        ELSE /\ state' = [state EXCEPT !.remainingTime = endTime - now]
             /\ calls' = <<onTick(state')>>
             /\ endTime' = endTime]_vars

\* C8 witness: the first poll of a countdown came at least two quanta late and
\* found the remaining time the clock gives.
C8_Witness ==
    /\ state.status = "running"
    /\ calls = <<onTick(state)>>
    /\ now - startTime >= 2 * Quantum
    /\ state.remainingTime = endTime - now
    /\ state.remainingTime > 0

\* C9: while a session is in progress (status running or paused), no step other
\* than the transition that ends it or a reset() increases remainingTime:
\* polls, pause(), resume and the passing of time leave it <= what it was.
C9_Monotonic ==
    [][(state.status \in {"running", "paused"} /\ ~SessionEnds /\ ~Reset) =>
        /\ state'.remainingTime <= state.remainingTime
        /\ state'.currentSession = state.currentSession
        /\ state'.currentSet = state.currentSet]_vars

\* C9 witness: a session that was paused and resumed has been polled again and
\* its remaining time went further down.
C9_Witness ==
    /\ state.status = "running"
    /\ anchor.kind = "resumed"
    /\ calls = <<onTick(state)>>
    /\ state.remainingTime < anchor.T
    /\ state.remainingTime > 0

\* The state of a freshly constructed engine with configuration cfg.
FreshState(cfg) ==
    [status |-> "idle", currentSession |-> "work", currentSet |-> 1,
     remainingTime |-> Minutes(cfg.workDuration),
     totalDuration |-> Minutes(cfg.workDuration)]

\* C10: from every reachable state reset() leaves no countdown loop and the
\* SessionState of a freshly constructed engine with the current configuration,
\* and a second reset() changes nothing further.
C10_Reset ==
    /\ [][Reset =>
            /\ loops' = {} /\ intervalId' = NoInterval
            /\ state' = FreshState(settings)
            /\ settings' = settings]_vars
    /\ [](LET r == reset(Self)
              rr == reset([r EXCEPT !.calls = <<>>])
          IN  /\ r.loops = {} /\ r.intervalId = NoInterval
              /\ r.state = FreshState(settings)
              /\ r.state = constructor(settings).state
              /\ rr = r)

\* C10 witness: reset() was called on an engine that had run and paused under a
\* configuration other than the one it is left with a state for.
C10_Witness ==
    /\ state.status = "idle"
    /\ calls = <<onStateChange(state)>>
    /\ loops = {}
    /\ endTime > 0
    /\ pausedRemainingTime > 0
    /\ pausedRemainingTime > state.totalDuration

\* An operation that did nothing: no field of the engine changed, the loops are
\* as they were and no callback was invoked.
NoOp ==
    /\ UNCHANGED <<settings, state, intervalId, startTime, endTime,
                   pausedRemainingTime, loops>>
    /\ calls' = <<>>

\* C11: start() while running, pause() while not running and skip() while idle
\* or completed change nothing (SessionState, endTime, the frozen remaining
\* time, the loops) and invoke no callback.
C11_SilentNoOps ==
    [][(\/ Start /\ state.status = "running"
        \/ Pause /\ state.status # "running"
        \/ Skip /\ state.status \in {"idle", "completed"}) => NoOp]_vars

\* C11 witness: an operation without effect was invoked on a completed engine
\* (no updateSettings() since the last reset(), so it was pause() or skip()).
C11_Witness ==
    /\ state.status = "completed"
    /\ calls = <<>>
    /\ run # Unobserved

\* C12: at most one countdown loop is alive, it is the one intervalId names,
\* and one is alive exactly when status is running.
C12_OneLoop ==
    /\ Cardinality(loops) <= 1
    /\ loops = IF intervalId = NoInterval THEN {} ELSE {intervalId}
    /\ loops # {} <=> state.status = "running"

\* C12 witness: in an engine that had been paused, a session-end transition
\* started the loop of the next session.
C12_Witness ==
    /\ state.status = "running"
    /\ Cardinality(loops) = 1
    /\ Len(calls) = 2 /\ calls[1].cb = "onSessionEnd"
    /\ pausedRemainingTime > 0
    /\ anchor.kind = "fresh"
    /\ anchor.at > 0

\* C13 as stated: once pause() or reset() has taken effect no poll fires before
\* the next call of start(), and with status paused, idle or completed the
\* passing of time changes no field of SessionState and invokes no callback.
C13_NoPollUntilStart ==
    [][/\ Tick => ~cancelled
       /\ (Advance /\ state.status \in {"paused", "idle", "completed"}) =>
              UNCHANGED <<state, calls>>]_vars

\* C13: pause() and reset() leave no countdown loop alive; a poll fires only in
\* status running, so after them none fires until the engine is running again
\* (by start(), or by a non-terminal skip() in status paused, which begins the
\* next session afresh); with status paused, idle or completed the passing of
\* time changes no field of SessionState and invokes no callback.
C13_Cancellation ==
    [][/\ ((Pause /\ state.status = "running") \/ Reset) =>
              /\ loops' = {} /\ intervalId' = NoInterval
              /\ state'.status \in {"paused", "idle"}
       /\ Tick => state.status = "running"
       /\ (Tick /\ cancelled) => anchor.kind = "fresh"
       /\ (Advance /\ state.status \in {"paused", "idle", "completed"}) =>
              /\ loops = {}
              /\ UNCHANGED <<state, calls>>]_vars

\* C13 witness: time has passed since the pause() that left the engine paused.
C13_Witness ==
    /\ state.status = "paused"
    /\ cancelled
    /\ loops = {}
    /\ anchor.kind = "paused"
    /\ now > anchor.at
    /\ calls = <<onStateChange(state)>>

\* A step that begins a session: a non-terminal transition, or a start() in a
\* status without a session in progress.
BeginsSession ==
    /\ now' = now
    /\ state'.status = "running"
    /\ Named(calls', "onSessionEnd") > 0 \/ state.status \in {"idle", "completed"}

\* C14: updateSettings() in any status changes the configuration only: the
\* SessionState, endTime, the frozen remaining time and the loops are as they
\* were and no callback is invoked; the durations in force are read by the next
\* step that begins a session (a non-terminal transition or a start() from
\* idle), and until then or a reset() totalDuration stays as it was.
C14_UpdateSettingsFrame ==
    [][/\ UpdateSettings =>
              /\ UNCHANGED <<state, intervalId, startTime, endTime,
                             pausedRemainingTime, loops>>
              /\ calls' = <<>>
       /\ BeginsSession =>
              /\ settings' = settings
              /\ state'.totalDuration = DurationOf(settings, state'.currentSession)
              /\ state'.remainingTime = state'.totalDuration
              /\ endTime' = now + state'.totalDuration
       /\ state'.totalDuration # state.totalDuration =>
              BeginsSession \/ state'.status = "idle"]_vars

\* C14 witness: the work duration was changed while a work session was running
\* and the session in progress kept the duration it was begun with.
C14_Witness ==
    /\ state.status = "running"
    /\ state.currentSession = "work"
    /\ calls = <<>>
    /\ run = Unobserved
    /\ state.totalDuration # Minutes(settings.workDuration)
    /\ endTime = startTime + state.totalDuration

\* C15: start() in status idle makes the status running, sets totalDuration =
\* remainingTime = the duration the configuration in force gives currentSession,
\* sets endTime = now + that duration, starts one countdown loop and invokes
\* onStateChange once, with the resulting state.
C15_StartFromIdle ==
    [][(Start /\ state.status = "idle") =>
        LET d == DurationOf(settings, state.currentSession)
        IN  /\ state' = [state EXCEPT !.status = "running",
                                      !.totalDuration = d,
                                      !.remainingTime = d]
            /\ startTime' = now
            /\ endTime' = now + d
            /\ loops = {} /\ Cardinality(loops') = 1 /\ intervalId' \in loops'
            /\ calls' = <<onStateChange(state')>>]_vars

\* C15 witness: start() began the first work session of an engine whose
\* configuration was changed while it was idle, after time had passed.
C15_Witness ==
    /\ state.status = "running"
    /\ state.currentSession = "work" /\ state.currentSet = 1
    /\ calls = <<onStateChange(state)>>
    /\ anchor.kind = "fresh" /\ anchor.at = now /\ now > 0
    /\ ~completed
    /\ run = Unobserved
    /\ state.totalDuration = Minutes(2)

\* C16: in every reachable state 0 <= remainingTime <= totalDuration, so
\* getProgress() is (totalDuration - remainingTime) / totalDuration * 100 and
\* lies within [0, 100]; and getProgress() is 0 when totalDuration is 0.
C16_Progress ==
    LET p == getProgress(Self)
        zero == getProgress([Self EXCEPT !.state.totalDuration = 0])
    IN  /\ 0 <= state.remainingTime
        /\ state.remainingTime <= state.totalDuration
        /\ state.totalDuration > 0
        /\ p.den > 0
        /\ p = Quotient((state.totalDuration - state.remainingTime) * 100,
                        state.totalDuration)
        /\ 0 <= p.num /\ p.num <= 100 * p.den
        /\ zero.den > 0 /\ zero.num = 0

\* C16 witness: a poll found a countdown part-way, with a progress strictly
\* between 0 and 100.
C16_Witness ==
    /\ state.status = "running"
    /\ calls = <<onTick(state)>>
    /\ getProgress(Self).num > 0
    /\ getProgress(Self).num < 100 * getProgress(Self).den

\* The number a sequence of decimal digits denotes.
RECURSIVE Value(_)
Value(ds) ==
    IF ds = <<>> THEN 0
    ELSE Value(SubSeq(ds, 1, Len(ds) - 1)) * 10
             + (CHOOSE v \in 0..9 : Digits[v + 1] = ds[Len(ds)])

IsNumeral(ds) == \A i \in 1..Len(ds) : \E v \in 0..9 : Digits[v + 1] = ds[i]

\* The least number of whole seconds that covers ms milliseconds.
SecondsCovering(ms) ==
    CHOOSE S \in 0..((ms \div 1000) + 1) : S * 1000 >= ms /\ (S - 1) * 1000 < ms

\* C17: for an integer ms >= 0, formatTime(ms) is the minutes floor(S / 60),
\* a colon and the seconds S mod 60, for S = ceil(ms / 1000), each written in
\* decimal and zero-padded to two digits, the minutes with more digits where
\* they need them (no hours); it is "00:00" iff ms = 0, and formatTime(1) =
\* "00:01", formatTime(60000) = "01:00", formatTime(3600000) = "60:00".
C17_FormatTime ==
    formatted.text # <<>> =>
        LET ms == formatted.ms
            text == formatted.text
            S == SecondsCovering(ms)
            n == Len(text)
            mm == SubSeq(text, 1, n - 3)
            ss == SubSeq(text, n - 1, n)
        IN  /\ n >= 5
            /\ text[n - 2] = ":"
            /\ IsNumeral(mm) /\ IsNumeral(ss)
            /\ Value(mm) = S \div 60
            /\ Value(ss) = S % 60
            /\ Len(mm) > 2 => mm[1] # "0"
            /\ text = <<"0", "0", ":", "0", "0">> <=> ms = 0
            /\ ms = 1 => text = <<"0", "0", ":", "0", "1">>
            /\ ms = 60000 => text = <<"0", "1", ":", "0", "0">>
            /\ ms = 3600000 => text = <<"6", "0", ":", "0", "0">>

\* C17 witness: formatTime was applied to a number of milliseconds that is more
\* than an hour and not a whole number of seconds.
C17_Witness ==
    /\ formatted.ms > 3600000
    /\ formatted.ms % 1000 # 0
    /\ formatted.text = <<"6", "0", ":", "0", "1">>

\* C18: every start() from idle or paused, every pause() from running and every
\* reset(), from any status, invokes onStateChange once and nothing else, with
\* the state the operation leaves; a poll that does not expire the session does
\* not invoke onStateChange.
C18_StateChangeOnce ==
    [][/\ (\/ Start /\ state.status \in {"idle", "paused"}
           \/ Pause /\ state.status = "running"
           \/ Reset) =>
              calls' = <<onStateChange(state')>>
       /\ (Tick /\ now < endTime) => Named(calls', "onStateChange") = 0]_vars

\* C18 witness: reset() was called on an engine that was idle and had never
\* been started, and it notified the unchanged state.
C18_Witness ==
    /\ state.status = "idle"
    /\ cancelled
    /\ endTime = 0
    /\ calls = <<onStateChange(state)>>

\* C19: a poll in status running either finds the remaining time 0, and then
\* stops the loop and makes the session-end transition once, without onTick,
\* or invokes onTick once, with a state that is running with remainingTime > 0,
\* and nothing else.  After the transition no loop is alive or the countdown of
\* the next session ends later than now, so a later poll does not make the
\* transition of the expired session again.
C19_PollDichotomy ==
    [][(Tick /\ state.status = "running") =>
        IF Max(0, endTime - now) = 0
        THEN /\ Named(calls', "onSessionEnd") = 1
             /\ calls'[1] = onSessionEnd(state.currentSession, calls'[1].next)
             /\ Named(calls', "onTick") = 0
             /\ Named(calls', "onComplete") <= 1
             /\ \/ loops' = {} /\ state'.status = "completed"
                \/ /\ state'.status = "running"
                   /\ endTime' > now
                   /\ tick([Self EXCEPT !.state = state', !.endTime = endTime',
                                        !.loops = loops',
                                        !.intervalId = intervalId'], now).calls
                          = <<onTick(state')>>
        ELSE /\ calls' = <<onTick(state')>>
             /\ state'.status = "running"
             /\ state'.remainingTime > 0
             /\ loops' = loops /\ endTime' = endTime]_vars

\* C19 witness: a poll that came late made the transition, and the poll after it
\* found the next session running.
C19_Witness ==
    /\ state.status = "running"
    /\ anchor.kind = "fresh" /\ anchor.by = "poll" /\ anchor.late > 0
    /\ calls = <<onTick(state)>>
    /\ state.remainingTime > 0

\* C20: a non-terminal transition at clock t makes currentSession the next
\* session, totalDuration = remainingTime = its duration under the settings in
\* force at t, the status running and endTime = t + that duration, whatever
\* the lateness of the poll or the remaining time of the session ended.
C20_TransitionAnchor ==
    [][(SessionEnds /\ state'.status # "completed") =>
        LET next == calls'[1].next
            d == DurationOf(settings, next)
        IN  /\ next \in {"work", "break", "longBreak"}
            /\ state'.currentSession = next
            /\ state'.totalDuration = d
            /\ state'.remainingTime = d
            /\ state'.status = "running"
            /\ startTime' = now
            /\ endTime' = now + d]_vars

\* C20 witness: a poll that came late began the next session, under settings
\* changed since the engine was reset, with the session's whole duration ahead.
C20_Witness ==
    /\ state.status = "running"
    /\ anchor.kind = "fresh" /\ anchor.by = "poll" /\ anchor.late > 0
    /\ anchor.at = now
    /\ Len(calls) = 2 /\ calls[1].cb = "onSessionEnd"
    /\ run = Unobserved
    /\ endTime = now + DurationOf(settings, state.currentSession)

C22_SkipWhilePaused ==
    /\ [][(Skip /\ state.status = "paused") =>
            LET next == NextAsStated(state.currentSession, state.currentSet,
                                     settings.totalSets, settings.longBreakInterval)
            IN  /\ loops = {}
                /\ Len(calls') >= 1
                /\ calls'[1] = onSessionEnd(state.currentSession, next)
                /\ IF next = null
                   THEN /\ state'.status = "completed"
                        /\ state'.remainingTime = 0
                        /\ loops' = {}
                   ELSE /\ state'.status = "running"
                        /\ state'.currentSession = next
                        /\ state'.totalDuration = DurationOf(settings, next)
                        /\ state'.remainingTime = state'.totalDuration
                        /\ endTime' = now + state'.totalDuration
                        /\ Cardinality(loops') = 1]_vars
    /\ [](state.status = "paused" => pausedRemainingTime = state.remainingTime)
    /\ [][(Start /\ state.status = "paused") =>
            endTime' = now + state.remainingTime]_vars

\* C22 witness: a session paused part-way was skipped, and the next session,
\* longer than what was frozen, is running with no time elapsed.
C22_Witness ==
    /\ state.status = "running"
    /\ anchor.kind = "fresh" /\ anchor.by = "skip" /\ anchor.at = now
    /\ Len(calls) = 2 /\ calls[1].cb = "onSessionEnd"
    /\ loops # {}
    /\ pausedRemainingTime > 0
    /\ pausedRemainingTime < state.remainingTime
    /\ state.remainingTime = state.totalDuration

\* The wall-clock time the session in progress has spent in status running.
RunningTime ==
    IF state.status = "running" THEN anchor.ran + (now - anchor.at) ELSE anchor.ran

\* C23: at every poll that does not expire the session, totalDuration -
\* remainingTime is the wall-clock time the session has spent in status running,
\* through any number of pause() / resume, wherever between the polls the
\* pause() calls fall.
C23_TrueSuspend ==
    [][(Tick /\ state.status = "running" /\ now < endTime) =>
        state'.totalDuration - state'.remainingTime = RunningTime]_vars

\* C24: a terminal transition leaves status completed, remainingTime 0,
\* currentSession and currentSet as they were and no loop alive, and from then
\* on the status stays completed under start(), pause(), skip(),
\* updateSettings() and the passing of time; only reset() leaves it.
C24_CompletedIsTerminal ==
    [][/\ (SessionEnds /\ state'.status = "completed") =>
              /\ state'.remainingTime = 0
              /\ state'.currentSession = state.currentSession
              /\ state'.currentSet = state.currentSet
              /\ loops' = {}
       /\ (state.status = "completed" /\ ~Reset) =>
              /\ state'.status = "completed"
              /\ loops' = {}]_vars

\* C25: with totalSets = 0 every operation can be called in every state, every
\* session end is a terminal transition out of the work session of set 1, and
\* no break and no work session of a later set is ever entered.
C25_ZeroSets ==
    /\ [][SessionEnds =>
            /\ calls' = <<onSessionEnd("work", null), onComplete,
                          onStateChange(state')>>
            /\ state'.status = "completed"]_vars
    /\ [](/\ settings.totalSets = 0
          /\ state.currentSession = "work"
          /\ state.currentSet = 1)
    /\ [](ENABLED Start /\ ENABLED Pause /\ ENABLED Skip /\ ENABLED Reset)

\* C25 witness: with totalSets = 0, in an engine never paused nor reset, the
\* work session had run out when its end completed the run.
C25_Witness ==
    /\ settings.totalSets = 0
    /\ state.status = "completed"
    /\ Len(calls) = 3 /\ calls[1] = onSessionEnd("work", null)
    /\ now >= endTime
    /\ endTime = startTime + state.totalDuration
    /\ ~cancelled
    /\ pausedRemainingTime = 0

\* C26: when totalSets >= 1 and the configuration changes in status idle only,
\* 1 <= currentSet <= totalSets in every reachable state, and every terminal
\* transition is made from a work session (that of the last set).
C26_SetWithinTotal ==
    /\ [](/\ settings.totalSets >= 1
          /\ 1 <= state.currentSet
          /\ state.currentSet <= settings.totalSets)
    /\ [][(SessionEnds /\ state'.status = "completed") =>
            /\ state.currentSession = "work"
            /\ state.currentSet = settings.totalSets]_vars

\* C26 witness: a run of three sets, configured while the engine was idle, has
\* completed from its last work session.
C26_Witness ==
    /\ run = Unobserved
    /\ settings.totalSets = 3
    /\ state.status = "completed"
    /\ state.currentSet = 3
    /\ Len(calls) = 3 /\ calls[1] = onSessionEnd("work", null)

\* C27: whenever status is idle the SessionState is the initial state for the
\* configuration in force: work, set 1, remainingTime = totalDuration =
\* workDuration minutes, also after updateSettings() in status idle.
C27_IdleIsInitial ==
    state.status = "idle" => state = FreshState(settings)

\* C28: under fairness of the polls, an advancing clock and a resume after each
\* of finitely many pause() calls, without reset(), once start() has been called
\* the engine eventually is completed with no countdown loop alive, and stays
\* so for good.
C28_Completes ==
    /\ state.status = "running" ~> (state.status = "completed" /\ loops = {})
    /\ [][(state.status = "completed" /\ loops = {}) =>
            (state'.status = "completed" /\ loops' = {})]_vars

\* C29: while the timer screen is shown, the pause button shows the pause
\* symbol whenever the engine is running and the play symbol whenever it is
\* paused, after any sequence of pause clicks, Space key presses, confirmed skip
\* clicks and session transitions.
C29_ButtonMatchesStatus ==
    ui.screen = "timer" =>
        /\ state.status = "running" => ui.pauseBtn = PauseSymbol
        /\ state.status = "paused" => ui.pauseBtn = PlaySymbol

====
